---- MODULE Spec2Model ----
(***************************************************************************)
(* Model of src/app.py: header location, section slicing, field            *)
(* extraction, text serialisation, projection and template filling.        *)
(*                                                                         *)
(* A Python str is modelled as a sequence of tokens.  A token is an        *)
(* indivisible piece of text (a whole header title, a whole label, a word, *)
(* a blank, a colon, a line feed).  The token alphabet is uniquely         *)
(* decodable, so equality, prefix tests, splitting and stripping on token  *)
(* sequences coincide with the same operations on the characters.          *)
(***************************************************************************)
EXTENDS Integers, Sequences, FiniteSets, TLC

\* ------------------------------------------------------------------ bounds
MaxLines == 3
MaxBody == 3
MaxReport == 4
MaxFillLines == 2
MaxMissing == 1

\* ------------------------------------------------------------ str helpers
NL == "\n"
SP == " "
COLON == ":"

IsSpace(t) == t \in {SP, NL}

RECURSIVE LStripSet(_, _)
LStripSet(s, chars) ==
  IF s # <<>> /\ Head(s) \in chars THEN LStripSet(Tail(s), chars) ELSE s

RECURSIVE RStripSet(_, _)
RStripSet(s, chars) ==
  IF s # <<>> /\ s[Len(s)] \in chars
  THEN RStripSet(SubSeq(s, 1, Len(s) - 1), chars) ELSE s

\* str.strip(): removes leading and trailing whitespace
Strip(s) == RStripSet(LStripSet(s, {SP, NL}), {SP, NL})

\* str.lower() on tokens; tokens absent from the table have no upper case
LowerTable ==
  [t \in {"Firma", "FIRMA", "Name", "Anschrift", "ANSCHRIFT",
          "Erreichbarkeit E-Mail", "Erreichbarkeit Telefon", "Straße",
          "Mess- und Betriebskonzept",
          "Gesamtleistung aller PV-Module in kWp",
          "Bruttokapazität des Speichereinheit", "Herr", "Frau", "Max"} |->
     CASE t = "Firma" -> "firma"
       [] t = "FIRMA" -> "firma"
       [] t = "Name" -> "name"
       [] t = "Anschrift" -> "anschrift"
       [] t = "ANSCHRIFT" -> "anschrift"
       [] t = "Erreichbarkeit E-Mail" -> "erreichbarkeit e-mail"
       [] t = "Erreichbarkeit Telefon" -> "erreichbarkeit telefon"
       [] t = "Straße" -> "straße"
       [] t = "Mess- und Betriebskonzept" -> "mess- und betriebskonzept"
       [] t = "Gesamtleistung aller PV-Module in kWp" ->
            "gesamtleistung aller pv-module in kwp"
       [] t = "Bruttokapazität des Speichereinheit" ->
            "bruttokapazität des speichereinheit"
       [] t = "Herr" -> "herr"
       [] t = "Frau" -> "frau"
       [] t = "Max" -> "max"]

LowerTok(t) == IF t \in DOMAIN LowerTable THEN LowerTable[t] ELSE t

Lower(s) == [k \in 1..Len(s) |-> LowerTok(s[k])]

StartsWith(s, p) == Len(s) >= Len(p) /\ SubSeq(s, 1, Len(p)) = p

\* position of the first token equal to c, 0 when there is none
RECURSIVE IndexOf(_, _, _)
IndexOf(s, c, from) ==
  IF from > Len(s) THEN 0
  ELSE IF s[from] = c THEN from ELSE IndexOf(s, c, from + 1)

\* str.split(sep): the pieces between the separators, at least one piece
RECURSIVE Split(_, _)
Split(s, sep) ==
  LET p == IndexOf(s, sep, 1) IN
  IF p = 0 THEN <<s>>
  ELSE <<SubSeq(s, 1, p - 1)>> \o Split(SubSeq(s, p + 1, Len(s)), sep)

\* sep.join(parts)
RECURSIVE Join(_, _)
Join(parts, sep) ==
  IF parts = <<>> THEN <<>>
  ELSE IF Len(parts) = 1 THEN parts[1]
  ELSE parts[1] \o <<sep>> \o Join(Tail(parts), sep)

\* tokens made of word characters only, for the regex assertion \b
IsWordTok(t) == t \notin {SP, NL, COLON, "-", "."}

\* ------------------------------------------------------------ configuration
HEADERS ==
  << <<"Stellvertreter">>,
     <<"Anschlussnehmer">>,
     <<"Anschlussort">>,
     <<"Angaben zur Kundenanlage">>,
     <<"Angaben zu den PV-Modulen">>,
     <<"Angaben zur Speichereinheit">> >>

HeaderSet == {HEADERS[k] : k \in 1..Len(HEADERS)}

TARGETS ==
  [h \in HeaderSet |->
     CASE h = <<"Stellvertreter">> ->
            << <<"Firma">>, <<"Erreichbarkeit E-Mail">> >>
       [] h = <<"Anschlussnehmer">> ->
            << <<"Anschrift">>, <<"Erreichbarkeit Telefon">> >>
       [] h = <<"Anschlussort">> -> << <<"Straße">> >>
       [] h = <<"Angaben zur Kundenanlage">> ->
            << <<"Mess- und Betriebskonzept">> >>
       [] h = <<"Angaben zu den PV-Modulen">> ->
            << <<"Gesamtleistung aller PV-Module in kWp">> >>
       [] h = <<"Angaben zur Speichereinheit">> ->
            << <<"Bruttokapazität des Speichereinheit">> >>]

\* the header titles in the order of Python's str comparison (code points):
\* "Angaben zu " < "Angaben zur" (blank < r), "... K" < "... S",
\* "Ang" < "Ans", "Anschlussn" < "Anschlusso", "A" < "S"
TitleOrder ==
  << <<"Angaben zu den PV-Modulen">>,
     <<"Angaben zur Kundenanlage">>,
     <<"Angaben zur Speichereinheit">>,
     <<"Anschlussnehmer">>,
     <<"Anschlussort">>,
     <<"Stellvertreter">> >>

\* ------------------------------------------------------------------- state
VARIABLES
  text,            \* the text returned by extract_full_text
  lines,           \* split_lines(text)
  pc,              \* position in the pipeline
  i,               \* loop index of find_header_indices
  header_indices,  \* idx_map: header -> index of its first line (0-based)
  hi,              \* loop index over HEADERS in extract_requested_fields
  slices,          \* header -> (start, end) returned by get_section_slice
  name,            \* return of extract_first_person_name, <<>> is None
  vals,            \* label -> return of extract_value_after_colon
  results,         \* header -> formatted "Label: Value" lines
  txt_out,         \* format_as_txt(results)
  extracted_dict,  \* build_extracted_dict(results)
  doc,             \* the opened template: pages of widgets
  step             \* number of assignments fill_template_pdf has made

vars == <<text, lines, pc, i, header_indices, hi, slices, name, vals,
          results, txt_out, extracted_dict, doc, step>>

EmptyMap == [x \in {} |-> <<>>]

\* Python list index (0-based) into a TLA+ sequence
At(seq, idx) == seq[idx + 1]

\* Python slice seq[a:b] for 0 <= a, b
Slice(seq, a, b) ==
  LET hiB == IF b > Len(seq) THEN Len(seq) ELSE b IN
  IF a >= hiB THEN <<>> ELSE SubSeq(seq, a + 1, hiB)

\* ------------------------------------------------------------- split_lines
split_lines(t) ==
  LET parts == Split(t, NL) IN [k \in 1..Len(parts) |-> Strip(parts[k])]


\* variant: a later duplicate of a header overwrites the entry
find_header_body_overwrite(idx_map, ln, idx) ==
  IF ln \in HeaderSet THEN (ln :> idx) @@ idx_map ELSE idx_map

\* ------------------------------------------------------ find_header_indices
\* one iteration of the loop body on line index idx
find_header_body(idx_map, ln, idx) ==
  IF ln \in HeaderSet /\ ln \notin DOMAIN idx_map
  THEN idx_map @@ (ln :> idx)
  ELSE idx_map

\* -------------------------------------------------------- get_section_slice
\* sorted((h, idx) for ...): the entries ordered by title
starts_sorted(hidx) ==
  LET pick(k) == IF TitleOrder[k] \in DOMAIN hidx
                 THEN << <<TitleOrder[k], hidx[TitleOrder[k]]>> >>
                 ELSE <<>>
      F[k \in 0..Len(TitleOrder)] ==
        IF k = 0 THEN <<>> ELSE F[k - 1] \o pick(k)
  IN F[Len(TitleOrder)]

RECURSIVE first_greater(_, _, _)
first_greater(pairs, current_idx, dflt) ==
  IF pairs = <<>> THEN dflt
  ELSE IF Head(pairs)[2] > current_idx THEN Head(pairs)[2]
  ELSE first_greater(Tail(pairs), current_idx, dflt)


\* variant: an absent header yields the whole document instead of the sentinel
get_section_slice_whole(lns, header, hidx) ==
  IF header \notin DOMAIN hidx THEN <<0, Len(lns)>>
  ELSE <<hidx[header] + 1,
         first_greater(starts_sorted(hidx), hidx[header], Len(lns))>>

get_section_slice(lns, header, hidx) ==
  IF header \notin DOMAIN hidx THEN <<-1, -1>>
  ELSE <<hidx[header] + 1,
         first_greater(starts_sorted(hidx), hidx[header], Len(lns))>>


\* variant: the flag re.IGNORECASE is left out
match_label_colon_exact(ln, label) ==
  IF ~(Len(ln) >= Len(label) /\ SubSeq(ln, 1, Len(label)) = label)
  THEN <<>>
  ELSE
    LET r1 == LStripSet(SubSeq(ln, Len(label) + 1, Len(ln)), {SP, NL}) IN
    IF r1 = <<>> \/ Head(r1) # COLON \/ Tail(r1) = <<>>
    THEN <<>>
    ELSE
      LET r2 == Tail(r1)
          g0 == LStripSet(r2, {SP, NL})
      IN IF g0 = <<>> THEN << <<r2[Len(r2)]>> >>
         ELSE << RStripSet(g0, {SP, NL}) >>

\* ------------------------------------------------- extract_value_after_colon
\* re.match(rf"^{re.escape(label)}\s*:\s*(.+?)\s*$", ln, re.IGNORECASE):
\* <<>> when the line does not match, else << group(1) >>.  A line holds no
\* line feed (it is a piece of text.split("\n")), so "." matches any token.
match_label_colon(ln, label) ==
  IF ~(Len(ln) >= Len(label)
       /\ Lower(SubSeq(ln, 1, Len(label))) = Lower(label))
  THEN <<>>
  ELSE
    LET r1 == LStripSet(SubSeq(ln, Len(label) + 1, Len(ln)), {SP, NL}) IN
    IF r1 = <<>> \/ Head(r1) # COLON \/ Tail(r1) = <<>>
    THEN <<>>
    ELSE
      LET r2 == Tail(r1)
          g0 == LStripSet(r2, {SP, NL})
      IN IF g0 = <<>> THEN << <<r2[Len(r2)]>> >>
         ELSE << RStripSet(g0, {SP, NL}) >>

RECURSIVE extract_value_after_colon(_, _)
extract_value_after_colon(section_lines, label) ==
  IF section_lines = <<>> THEN <<>>
  ELSE
    LET m == match_label_colon(Head(section_lines), label) IN
    IF m # <<>> THEN <<Strip(m[1])>>
    ELSE extract_value_after_colon(Tail(section_lines), label)

\* ------------------------------------------------- extract_first_person_name
\* re.match(r"^(Herr|Frau)\b", ln)
honorific(ln) ==
  /\ ln # <<>>
  /\ ln[1] \in {"Herr", "Frau"}
  /\ (Len(ln) = 1 \/ ~IsWordTok(ln[2]))

RECURSIVE extract_first_person_name(_)
extract_first_person_name(section_lines) ==
  IF section_lines = <<>> THEN <<>>
  ELSE
    LET ln == Head(section_lines) IN
    IF ln = <<>> THEN extract_first_person_name(Tail(section_lines))
    ELSE IF \E k \in 1..Len(ln) : ln[k] = COLON
      THEN extract_first_person_name(Tail(section_lines))
    ELSE IF ln \in HeaderSet
      THEN extract_first_person_name(Tail(section_lines))
    ELSE IF honorific(ln) THEN <<Strip(ln)>>
    ELSE <<Strip(ln)>>

\* -------------------------------------------------- extract_requested_fields
\* f"{label}: {val}"
fmt_field(label, val) == label \o <<COLON, SP>> \o val

\* the "Name: ..." entry of the section, when the header is Anschlussnehmer
name_out(header, nm) ==
  IF header = <<"Anschlussnehmer">> /\ nm # <<>> /\ nm[1] # <<>>
  THEN << fmt_field(<<"Name">>, nm[1]) >>
  ELSE <<>>

\* the loop over TARGETS.get(header, [])
labels_out(header, section_lines) ==
  LET labels == TARGETS[header]
      F[k \in 0..Len(labels)] ==
        IF k = 0 THEN <<>>
        ELSE LET val == extract_value_after_colon(section_lines, labels[k])
             IN IF val # <<>>
                THEN F[k - 1] \o << fmt_field(labels[k], val[1]) >>
                ELSE F[k - 1]
  IN F[Len(labels)]

section_of(lns, se) == Slice(lns, se[1], se[2])

\* ------------------------------------------------------------------ actions
\* lines = split_lines(text)
SplitLines ==
  /\ pc = "split"
  /\ lines' = split_lines(text)
  /\ pc' = "find"
  /\ UNCHANGED <<text, i, header_indices, hi, slices, name, vals, results,
                 txt_out, extracted_dict, doc, step>>

\* one iteration of "for i, ln in enumerate(lines)"
FindHeaderStep ==
  /\ pc = "find"
  /\ i < Len(lines)
  /\ header_indices' = find_header_body(header_indices, At(lines, i), i)
  /\ i' = i + 1
  /\ UNCHANGED <<text, lines, pc, hi, slices, name, vals, results, txt_out,
                 extracted_dict, doc, step>>

\* the loop is exhausted: return idx_map
FindHeaderReturn ==
  /\ pc = "find"
  /\ i = Len(lines)
  /\ pc' = "extract"
  /\ UNCHANGED <<text, lines, i, header_indices, hi, slices, name, vals,
                 results, txt_out, extracted_dict, doc, step>>

\* one iteration of "for header in HEADERS" whose header has no section
ExtractSkip ==
  /\ pc = "extract"
  /\ hi <= Len(HEADERS)
  /\ LET header == HEADERS[hi]
         se == get_section_slice(lines, header, header_indices)
     IN /\ se[1] = -1
        /\ slices' = slices @@ (header :> se)
  /\ hi' = hi + 1
  /\ UNCHANGED <<text, lines, pc, i, header_indices, name, vals, results,
                 txt_out, extracted_dict, doc, step>>

\* one iteration of "for header in HEADERS" whose header has a section
ExtractSection ==
  /\ pc = "extract"
  /\ hi <= Len(HEADERS)
  /\ LET header == HEADERS[hi]
         se == get_section_slice(lines, header, header_indices)
         section_lines == section_of(lines, se)
         nm == IF header = <<"Anschlussnehmer">>
               THEN extract_first_person_name(section_lines) ELSE name
         section_out == name_out(header, nm)
                          \o labels_out(header, section_lines)
         labels == TARGETS[header]
     IN /\ se[1] # -1
        /\ slices' = slices @@ (header :> se)
        /\ name' = nm
        /\ vals' = vals @@
             [l \in {labels[k] : k \in 1..Len(labels)} |->
                extract_value_after_colon(section_lines, l)]
        /\ results' = IF section_out # <<>>
                      THEN results @@ (header :> section_out)
                      ELSE results
  /\ hi' = hi + 1
  /\ UNCHANGED <<text, lines, pc, i, header_indices, txt_out,
                 extracted_dict, doc, step>>

\* the loop over HEADERS is exhausted: return results
ExtractReturn ==
  /\ pc = "extract"
  /\ hi = Len(HEADERS) + 1
  /\ pc' = "format"
  /\ UNCHANGED <<text, lines, i, header_indices, hi, slices, name, vals,
                 results, txt_out, extracted_dict, doc, step>>

\* --------------------------------------------------------------- format_as_txt
\* the list "parts" after the loop over HEADERS
txt_parts(res) ==
  LET bullets(h) == [k \in 1..Len(res[h]) |-> <<"-", SP>> \o res[h][k]]
      F[k \in 0..Len(HEADERS)] ==
        IF k = 0 THEN <<>>
        ELSE IF HEADERS[k] \notin DOMAIN res THEN F[k - 1]
        ELSE F[k - 1] \o <<HEADERS[k]>> \o bullets(HEADERS[k]) \o << <<>> >>
  IN F[Len(HEADERS)]


\* variant: the joined text is not stripped
format_as_txt_nostrip(res) == Join(txt_parts(res), NL) \o <<NL>>

format_as_txt(res) == Strip(Join(txt_parts(res), NL)) \o <<NL>>


\* variant: ln.rsplit(":", 1)[1], the text after the last colon
after_last_colon(ln) ==
  LET ps == {k \in 1..Len(ln) : ln[k] = COLON}
      p == CHOOSE k \in ps : \A j \in ps : j <= k
  IN SubSeq(ln, p + 1, Len(ln))

\* ------------------------------------------------------------------ _get_value
\* ln.split(":", 1)[1]
after_first_colon(ln) == SubSeq(ln, IndexOf(ln, COLON, 1) + 1, Len(ln))

\* ln.lstrip("- ").strip()
unbullet(ln) == Strip(LStripSet(ln, {"-", SP}))

RECURSIVE scan_value(_, _)
scan_value(lns, label) ==
  IF lns = <<>> THEN <<>>
  ELSE LET ln == unbullet(Head(lns)) IN
       IF StartsWith(Lower(ln), Lower(label) \o <<COLON>>)
       THEN Strip(after_first_colon(ln))
       ELSE scan_value(Tail(lns), label)

\* results_by_section.get(section, [])
get_list(res, section) == IF section \in DOMAIN res THEN res[section] ELSE <<>>

get_value(res, section, label) == scan_value(get_list(res, section), label)

\* -------------------------------------------------------- build_extracted_dict
\* the loop that finds name_line scans for the prefix "name:"
build_extracted_dict(res) ==
  [name |-> scan_value(get_list(res, <<"Anschlussnehmer">>), <<"name">>),
   anschrift |-> get_value(res, <<"Anschlussnehmer">>, <<"Anschrift">>),
   telefon |->
     get_value(res, <<"Anschlussnehmer">>, <<"Erreichbarkeit Telefon">>),
   anschlussort_strasse |-> get_value(res, <<"Anschlussort">>, <<"Straße">>),
   messkonzept |-> get_value(res, <<"Angaben zur Kundenanlage">>,
                             <<"Mess- und Betriebskonzept">>),
   pv_kwp |-> get_value(res, <<"Angaben zu den PV-Modulen">>,
                        <<"Gesamtleistung aller PV-Module in kWp">>),
   speicher_kwh |-> get_value(res, <<"Angaben zur Speichereinheit">>,
                              <<"Bruttokapazität des Speichereinheit">>)]

\* txt_out = format_as_txt(results_by_section)
FormatAsTxt ==
  /\ pc = "format"
  /\ txt_out' = format_as_txt(results)
  /\ pc' = "build"
  /\ UNCHANGED <<text, lines, i, header_indices, hi, slices, name, vals,
                 results, extracted_dict, doc, step>>

\* extracted_dict = build_extracted_dict(results_by_section)
BuildExtractedDict ==
  /\ pc = "build"
  /\ extracted_dict' = build_extracted_dict(results)
  /\ pc' = "fill"
  /\ UNCHANGED <<text, lines, i, header_indices, hi, slices, name, vals,
                 results, txt_out, doc, step>>

\* ------------------------------------------------------------ template filling
\* the serial numbers (page p, widget k) of the widgets named field_name, in
\* the order "for page in doc: for w in widgets" visits them
positions(d, field_name) ==
  UNION {{<<p, k>> : k \in {j \in 1..Len(d[p]) :
                               d[p][j].field_name = field_name}} :
         p \in 1..Len(d)}

before(a, b) == a[1] < b[1] \/ (a[1] = b[1] /\ a[2] < b[2])


\* variant: the scan falls back to the first widget of the document
first_widget_fallback(d, field_name) ==
  LET ps == positions(d, field_name) IN
  IF ps = {} THEN << <<1, 1>> >>
  ELSE <<CHOOSE a \in ps : \A b \in ps : a = b \/ before(a, b)>>

\* the widget the scan returns at: <<>> when no widget has that name
first_widget(d, field_name) ==
  LET ps == positions(d, field_name) IN
  IF ps = {} THEN <<>>
  ELSE <<CHOOSE a \in ps : \A b \in ps : a = b \/ before(a, b)>>

set_value(d, pk, v) ==
  [d EXCEPT ![pk[1]] = [@ EXCEPT ![pk[2]] = [@ EXCEPT !.field_value = v]]]

\* _set_text_field: w.field_value = value or ""
set_text_field(d, field_name, value) ==
  LET w == first_widget(d, field_name) IN
  IF w = <<>> THEN d ELSE set_value(d, w[1], value)

\* _set_checkbox: w.field_value = w.on_state() if checked else "Off"
set_checkbox(d, field_name, checked) ==
  LET w == first_widget(d, field_name) IN
  IF w = <<>> THEN d
  ELSE set_value(d, w[1],
                 IF checked THEN d[w[1][1]][w[1][2]].on_state ELSE <<"Off">>)

\* speicher_kwh = (extracted.get("speicher_kwh") or "").strip()
speicher_of(extracted) == Strip(extracted.speicher_kwh)


\* variant: ja_2 is ticked like Check 1, Check 5, Check 7 and Check 9
ja_checked_always(extracted) == TRUE

\* bool(speicher_kwh)
ja_checked(extracted) == speicher_of(extracted) # <<>>

\* the assignments of fill_template_pdf, in program order
fill_plan(extracted, today) ==
  << [kind |-> "text", field |-> "Name Vorname", value |-> extracted.name],
     [kind |-> "text", field |-> "Straße  Nr  Ort",
      value |-> extracted.anschrift],
     [kind |-> "text", field |-> "Telefonnummer",
      value |-> extracted.telefon],
     [kind |-> "text", field |-> "2 Standort der Photovoltaikanlage",
      value |-> extracted.anschlussort_strasse],
     [kind |-> "check", field |-> "Check 1", checked |-> TRUE],
     [kind |-> "check", field |-> "Check 5", checked |-> TRUE],
     [kind |-> "check", field |-> "Check 7", checked |-> TRUE],
     [kind |-> "check", field |-> "Check 9", checked |-> TRUE],
     [kind |-> "text", field |-> "Bemerkung 5", value |-> today],
     [kind |-> "text", field |-> "Bemerkung 9",
      value |-> extracted.messkonzept],
     [kind |-> "text", field |-> "kWp", value |-> extracted.pv_kwp],
     [kind |-> "text", field |-> "kWh", value |-> speicher_of(extracted)],
     [kind |-> "check", field |-> "ja_2", checked |-> ja_checked(extracted)] >>

\* datetime.now(ZoneInfo("Europe/Berlin")).strftime("%d.%m.%Y")
Dates == { <<"04.11.2026">>, <<"05.11.2026">> }

PlanLen == 13

apply_assignment(d, a) ==
  IF a.kind = "text" THEN set_text_field(d, a.field, a.value)
  ELSE set_checkbox(d, a.field, a.checked)

\* the next _set_text_field / _set_checkbox call of fill_template_pdf
FillStep ==
  /\ pc = "fill"
  /\ step < PlanLen
  /\ \E today \in Dates :
       doc' = apply_assignment(doc, fill_plan(extracted_dict, today)[step + 1])
  /\ step' = step + 1
  /\ UNCHANGED <<text, lines, pc, i, header_indices, hi, slices, name, vals,
                 results, txt_out, extracted_dict>>

\* out = doc.tobytes(deflate=True); doc.close(); return out
FillReturn ==
  /\ pc = "fill"
  /\ step = PlanLen
  /\ pc' = "done"
  /\ UNCHANGED <<text, lines, i, header_indices, hi, slices, name, vals,
                 results, txt_out, extracted_dict, doc, step>>

Next ==
  \/ SplitLines
  \/ FindHeaderStep
  \/ FindHeaderReturn
  \/ ExtractSkip
  \/ ExtractSection
  \/ ExtractReturn
  \/ FormatAsTxt
  \/ BuildExtractedDict
  \/ FillStep
  \/ FillReturn

\* ------------------------------------------------------------------- inputs
SeqsUpTo(S, n) == UNION {[1..k -> S] : k \in 1..n}

\* the texts whose pieces between line feeds are drawn from pool
TextsOf(first, pool, n) ==
  {Join(first \o rl, NL) : rl \in SeqsUpTo(pool, n)}

TextFieldNames ==
  <<"Name Vorname", "Straße  Nr  Ort", "Telefonnummer",
    "2 Standort der Photovoltaikanlage", "Bemerkung 5", "Bemerkung 9",
    "kWp", "kWh">>

CheckFieldNames == <<"Check 1", "Check 5", "Check 7", "Check 9", "ja_2">>

FieldNames ==
  {TextFieldNames[k] : k \in 1..Len(TextFieldNames)}
    \cup {CheckFieldNames[k] : k \in 1..Len(CheckFieldNames)}

\* a text widget holding an earlier entry
TextWidget(n) ==
  [field_name |-> n, field_value |-> <<"alt">>, on_state |-> <<>>]

\* a checkbox widget with its current value and its on-state
CheckWidget(n, on, v) == [field_name |-> n, field_value |-> v, on_state |-> on]

FullPage ==
  [k \in 1..Len(TextFieldNames) |-> TextWidget(TextFieldNames[k])]
    \o [k \in 1..Len(CheckFieldNames) |->
          IF CheckFieldNames[k] = "ja_2"
          THEN CheckWidget("ja_2", <<"Ja">>, <<"Ja">>)
          ELSE CheckWidget(CheckFieldNames[k], <<"On">>, <<"Off">>)]

\* a template: page 1 lacks the widgets named in missing and has ja_2 ticked;
\* page 2 repeats kWh and ja_2 when dup, and holds a widget no assignment
\* names otherwise
Template(missing, dup) ==
  LET keep(w) == w.field_name \notin missing IN
  << SelectSeq(FullPage, keep),
     IF dup
     THEN <<TextWidget("kWh"), CheckWidget("ja_2", <<"Yes">>, <<"Off">>)>>
     ELSE <<TextWidget("Unterschrift")>> >>

Templates ==
  {Template(m, dup) :
     m \in {x \in SUBSET FieldNames : Cardinality(x) <= MaxMissing},
     dup \in BOOLEAN}

InitWith(texts, templates) ==
  /\ text \in texts
  /\ lines = <<>>
  /\ pc = "split"
  /\ i = 0
  /\ header_indices = EmptyMap
  /\ hi = 1
  /\ slices = EmptyMap
  /\ name = <<>>
  /\ vals = EmptyMap
  /\ results = EmptyMap
  /\ txt_out = <<>>
  /\ extracted_dict = build_extracted_dict(EmptyMap)
  /\ doc \in templates
  /\ step = 0

\* documents made of header lines and filler lines
SlicePool == HeaderSet \cup { <<"x">>, <<SP, "Anschlussort">> }

Init == InitWith(TextsOf(<<>>, SlicePool, MaxLines), {Template({}, FALSE)})

Spec == Init /\ [][Next]_vars

\* documents that open the Anschlussnehmer section
NamePool ==
  { <<>>,
    <<"Herr", SP, "Max">>,
    <<"Acme">>,
    <<"Anschrift", COLON, SP, "x">>,
    <<"Anschlussnehmer">>,
    <<"Frau">> }

InitName ==
  InitWith(TextsOf(<< <<"Anschlussnehmer">> >>, NamePool, MaxBody),
           {Template({}, FALSE)})

SpecName == InitName /\ [][Next]_vars

\* documents that open the Stellvertreter section
ValuePool ==
  { <<"Firma", COLON, SP, "x">>,
    <<"firma", SP, COLON, SP, SP, "y", SP>>,
    <<"Firma", COLON>>,
    <<"x", SP, "Firma", COLON, "x">>,
    <<"Firma", SP, "x", COLON, "y">>,
    <<"FIRMA", COLON, "a", COLON, "b">>,
    <<"Erreichbarkeit E-Mail", COLON, SP, "m">> }

InitValue ==
  InitWith(TextsOf(<< <<"Stellvertreter">> >>, ValuePool, MaxBody),
           {Template({}, FALSE)})

SpecValue == InitValue /\ [][Next]_vars

\* documents with several sections and fields
ReportPool ==
  { <<"Anschlussnehmer">>,
    <<"Anschlussort">>,
    <<"Angaben zur Speichereinheit">>,
    <<"Herr", SP, "Max">>,
    <<"ANSCHRIFT", COLON, SP, "a", COLON, SP, "b">>,
    <<"Straße", COLON, SP, "x">>,
    <<"Bruttokapazität des Speichereinheit", COLON, SP, "10.5">> }

InitReport ==
  InitWith(TextsOf(<<>>, ReportPool, MaxReport), {Template({}, FALSE)})

SpecReport == InitReport /\ [][Next]_vars

\* few documents, many templates
FillPool ==
  { <<"Angaben zur Speichereinheit">>,
    <<"Anschlussnehmer">>,
    <<"Bruttokapazität des Speichereinheit", COLON, SP, "10.5">>,
    <<"Herr", SP, "Max">> }

InitFill == InitWith(TextsOf(<<>>, FillPool, MaxFillLines), Templates)

SpecFill == InitFill /\ [][Next]_vars

\* ------------------------------------------------------------------ properties
Present(h) == h \in DOMAIN header_indices

Occurs(h) == \E k \in 0..Len(lines) - 1 : At(lines, k) = h

Past(stages) == pc \notin stages

MinOf(S) == CHOOSE m \in S : \A n \in S : m <= n

\* the section lines of a header whose slice has been computed
SectionLines(h) == Slice(lines, slices[h][1], slices[h][2])

\* C1: for every present header the end of its section is the smallest header
\* index strictly greater than its own index, or the document length when
\* there is none (so the section of A ends at the next header B).
C1_EndIsNearestHeader ==
  \A h \in DOMAIN slices :
    Present(h) =>
      slices[h][2] =
        MinOf({header_indices[g] : g \in {x \in DOMAIN header_indices :
                 header_indices[x] > header_indices[h]}}
              \cup {Len(lines)})

\* the lines of a section that are non-blank, hold no colon and are no header
Qualifying(sec) ==
  LET ok(ln) == /\ ln # <<>>
                /\ \A k \in 1..Len(ln) : ln[k] # COLON
                /\ ln \notin HeaderSet
  IN SelectSeq(sec, ok)

NameSectionDone ==
  /\ <<"Anschlussnehmer">> \in DOMAIN slices
  /\ slices[<<"Anschlussnehmer">>][1] # -1

\* C2: the name is a qualifying line with an honorific whenever one
\* qualifying line has one, else the first qualifying line, else no name.
C2_HonorificPreferred ==
  NameSectionDone =>
    LET q == Qualifying(SectionLines(<<"Anschlussnehmer">>)) IN
    IF q = <<>> THEN name = <<>>
    ELSE IF \E k \in 1..Len(q) : honorific(q[k])
      THEN /\ name # <<>>
           /\ honorific(name[1])
           /\ \E k \in 1..Len(q) : q[k] = name[1]
    ELSE name = <<q[1]>>

ReportLines == Split(txt_out, NL)

\* C3: a known header that equals no line gets the sentinel range (-1, -1),
\* has no entry in the extraction result and no line in the report.
C3_AbsentHeaderOmitted ==
  \A h \in HeaderSet :
    (Past({"split", "find"}) /\ ~Occurs(h)) =>
      /\ h \in DOMAIN slices => slices[h] = <<-1, -1>>
      /\ h \notin DOMAIN results
      /\ Past({"split", "find", "extract", "format"}) =>
           \A k \in 1..Len(ReportLines) :
             /\ ReportLines[k] # h
             /\ \A j \in 1..Len(TARGETS[h]) :
                  ~StartsWith(ReportLines[k], <<"-", SP>> \o TARGETS[h][j])

C3_Witness ==
  /\ pc = "done"
  /\ ~Occurs(<<"Anschlussort">>)
  /\ \E k \in 0..Len(lines) - 1 : At(lines, k) = <<"Straße", COLON, SP, "x">>
  /\ <<"Anschlussnehmer">> \in DOMAIN results
  /\ slices[<<"Anschlussort">>] = <<-1, -1>>

\* the position of the colon of a line of the form label, blanks, colon,
\* non-empty remainder (label compared without case), 0 for any other line
ColonAfterLabel(ln, label) ==
  LET ps == {p \in Len(label) + 1..Len(ln) - 1 :
               /\ Lower(SubSeq(ln, 1, Len(label))) = Lower(label)
               /\ ln[p] = COLON
               /\ \A k \in Len(label) + 1..p - 1 : IsSpace(ln[k])}
  IN IF ps = {} THEN 0 ELSE MinOf(ps)

\* C4: extract_value_after_colon returns the trimmed remainder of the first
\* line of the form label, blanks, colon, blanks, non-empty remainder, found
\* without regard to case, and None when no line has the form; a None field
\* has no line in the extraction result.
C4_FirstLabelledValue ==
  \A h \in DOMAIN slices :
    slices[h][1] # -1 =>
      \A j \in 1..Len(TARGETS[h]) :
        LET label == TARGETS[h][j]
            sec == SectionLines(h)
            ms == {k \in 1..Len(sec) : ColonAfterLabel(sec[k], label) # 0}
        IN /\ label \in DOMAIN vals
           /\ IF ms = {} THEN
                /\ vals[label] = <<>>
                /\ \A k \in 1..Len(get_list(results, h)) :
                     ~StartsWith(results[h][k], label)
              ELSE
                LET ln == sec[MinOf(ms)] IN
                /\ vals[label] =
                     << Strip(SubSeq(ln, ColonAfterLabel(ln, label) + 1,
                                     Len(ln))) >>
                /\ \E k \in 1..Len(get_list(results, h)) :
                     results[h][k] = label \o <<COLON, SP>> \o vals[label][1]

C4_Witness ==
  /\ pc = "done"
  /\ lines = << <<"Stellvertreter">>,
                <<"Firma", COLON>>,
                <<"firma", SP, COLON, SP, SP, "y">>,
                <<"Firma", COLON, SP, "x">> >>
  /\ vals[<<"Firma">>] = << <<"y">> >>
  /\ vals[<<"Erreichbarkeit E-Mail">>] = <<>>
  /\ results[<<"Stellvertreter">>] = << <<"Firma", COLON, SP, "y">> >>

\* the headers of the result in configured order
PresentHeaders(res) ==
  LET in_res(h) == h \in DOMAIN res IN SelectSeq(HEADERS, in_res)

\* the report line (1-based) on which the k-th present header stands
RECURSIVE HeaderLineNo(_, _)
HeaderLineNo(res, k) ==
  IF k = 1 THEN 1
  ELSE HeaderLineNo(res, k - 1) + Len(res[PresentHeaders(res)[k - 1]]) + 2

WellFormedReport(t, res) ==
  LET ls == Split(t, NL)
      hs == PresentHeaders(res)
  IN /\ t # <<>> /\ t[Len(t)] = NL
     /\ Len(t) > 1 => t[Len(t) - 1] # NL
     /\ IF hs = <<>> THEN t = <<NL>>
        ELSE
          /\ Len(ls) = HeaderLineNo(res, Len(hs)) + Len(res[hs[Len(hs)]]) + 1
          /\ \A k \in 1..Len(hs) :
               LET at == HeaderLineNo(res, k) IN
               /\ ls[at] = hs[k]
               /\ \A j \in 1..Len(res[hs[k]]) :
                    ls[at + j] = <<"-", SP>> \o res[hs[k]][j]
               /\ ls[at + Len(res[hs[k]]) + 1] = <<>>

\* C5: format_as_txt leaves the result unchanged and returns the present
\* headers in configured order, each followed by its "- " bulleted fields,
\* one blank line between sections and exactly one trailing line feed.
C5_ReportLayout ==
  [][pc = "format" => /\ results' = results
                      /\ WellFormedReport(txt_out', results)]_vars

C5_Witness ==
  /\ pc = "build"
  /\ DOMAIN results = { <<"Anschlussnehmer">>, <<"Anschlussort">> }
  /\ txt_out = Join(<< <<"Anschlussnehmer">>,
                       <<"-", SP, "Name", COLON, SP, "Herr", SP, "Max">>,
                       <<>>,
                       <<"Anschlussort">>,
                       <<"-", SP, "Straße", COLON, SP, "x">>,
                       <<>> >>, NL)

\* the value an assignment gives to the widget w it reaches
AssignedValue(field, w, extracted) ==
  CASE field = "Name Vorname" -> {extracted.name}
    [] field = "Straße  Nr  Ort" -> {extracted.anschrift}
    [] field = "Telefonnummer" -> {extracted.telefon}
    [] field = "2 Standort der Photovoltaikanlage" ->
         {extracted.anschlussort_strasse}
    [] field = "Bemerkung 5" -> Dates
    [] field = "Bemerkung 9" -> {extracted.messkonzept}
    [] field = "kWp" -> {extracted.pv_kwp}
    [] field = "kWh" -> {extracted.speicher_kwh}
    [] field = "ja_2" ->
         {IF extracted.speicher_kwh # <<>> THEN w.on_state ELSE <<"Off">>}
    [] OTHER -> {w.on_state}

PlanFields ==
  <<"Name Vorname", "Straße  Nr  Ort", "Telefonnummer",
    "2 Standort der Photovoltaikanlage", "Check 1", "Check 5", "Check 7",
    "Check 9", "Bemerkung 5", "Bemerkung 9", "kWp", "kWh", "ja_2">>

WidgetAt(d, pk) == d[pk[1]][pk[2]]

AllPositions(d) ==
  UNION {{<<p, k>> : k \in 1..Len(d[p])} : p \in 1..Len(d)}

\* C6: an assignment whose field name no widget carries changes nothing, and
\* an assignment whose field exists changes only the first widget of that
\* name, which gets the value it gets in any template.
C6_MissingFieldSkipped ==
  [][(pc = "fill" /\ step < PlanLen) =>
       LET f == PlanFields[step + 1]
           ps == {pk \in AllPositions(doc) : WidgetAt(doc, pk).field_name = f}
       IN /\ ps = {} => doc' = doc
          /\ ps # {} =>
               LET first == CHOOSE a \in ps : \A b \in ps : a = b \/ before(a, b)
               IN /\ \A pk \in AllPositions(doc) \ {first} :
                       WidgetAt(doc', pk) = WidgetAt(doc, pk)
                  /\ WidgetAt(doc', first).field_name = f
                  /\ WidgetAt(doc', first).on_state =
                       WidgetAt(doc, first).on_state
                  /\ WidgetAt(doc', first).field_value \in
                       AssignedValue(f, WidgetAt(doc, first), extracted_dict)
          /\ Len(doc') = Len(doc)
          /\ \A p \in 1..Len(doc) : Len(doc'[p]) = Len(doc[p])]_vars

C6_Witness ==
  /\ pc = "done"
  /\ positions(doc, "Telefonnummer") = {}
  /\ extracted_dict.name = <<"Herr", SP, "Max">>
  /\ \A pk \in AllPositions(doc) :
       LET w == WidgetAt(doc, pk) IN
       /\ w.field_name = "Name Vorname" => w.field_value = <<"Herr", SP, "Max">>
       /\ w.field_name = "Check 9" => w.field_value = <<"On">>
       /\ w.field_name = "Unterschrift" => w.field_value = <<"alt">>

FirstNamed(d, f) ==
  LET ps == {pk \in AllPositions(d) : WidgetAt(d, pk).field_name = f}
  IN CHOOSE a \in ps : \A b \in ps : a = b \/ before(a, b)

HasWidget(d, f) == \E pk \in AllPositions(d) : WidgetAt(d, pk).field_name = f

\* C7: after fill_template_pdf the checkbox ja_2 holds its on-state when
\* speicher_kwh is non-empty and "Off" when it is empty, while Check 1,
\* Check 5, Check 7 and Check 9 hold their on-state in either case.
C7_DerivedCheckbox ==
  pc = "done" =>
    /\ HasWidget(doc, "ja_2") =>
         LET w == WidgetAt(doc, FirstNamed(doc, "ja_2")) IN
         w.field_value = IF extracted_dict.speicher_kwh # <<>>
                         THEN w.on_state ELSE <<"Off">>
    /\ \A c \in {"Check 1", "Check 5", "Check 7", "Check 9"} :
         HasWidget(doc, c) =>
           LET w == WidgetAt(doc, FirstNamed(doc, c)) IN
           w.field_value = w.on_state

C7_Witness ==
  /\ pc = "done"
  /\ extracted_dict.speicher_kwh = <<>>
  /\ HasWidget(doc, "ja_2")
  /\ FirstNamed(doc, "ja_2")[1] = 1
  /\ WidgetAt(doc, FirstNamed(doc, "ja_2")).field_value = <<"Off">>
  /\ WidgetAt(doc, FirstNamed(doc, "Check 1")).field_value = <<"On">>

\* C8: once find_header_indices has returned, every key of the map is a known
\* header, a header has an entry exactly when some line equals it, and the
\* entry is the index of the first such line.
C8_FirstOccurrence ==
  Past({"split", "find"}) =>
    /\ DOMAIN header_indices \subseteq HeaderSet
    /\ \A h \in HeaderSet : Present(h) <=> Occurs(h)
    /\ \A h \in DOMAIN header_indices :
         /\ header_indices[h] \in 0..Len(lines) - 1
         /\ At(lines, header_indices[h]) = h
         /\ \A k \in 0..header_indices[h] - 1 : At(lines, k) # h

C8_Witness ==
  /\ pc = "extract"
  /\ lines = << <<"x">>, <<"Anschlussort">>, <<"Anschlussort">> >>
  /\ header_indices = (<<"Anschlussort">> :> 1)

\* C9: for every present header start = index + 1, start <= end <= document
\* length, and a present header directly followed by another present header
\* has an empty section.
C9_SpanOrdered ==
  \A h \in DOMAIN slices :
    Present(h) =>
      /\ slices[h][1] = header_indices[h] + 1
      /\ slices[h][1] <= slices[h][2]
      /\ slices[h][2] <= Len(lines)
      /\ (\E g \in DOMAIN header_indices :
            header_indices[g] = header_indices[h] + 1)
           => slices[h][1] = slices[h][2]

\* the value extracted for a label, <<>> when nothing was extracted
Extracted(label) ==
  IF label \in DOMAIN vals /\ vals[label] # <<>> THEN vals[label][1] ELSE <<>>

InResults(h, label) ==
  \E k \in 1..Len(get_list(results, h)) :
    StartsWith(results[h][k], label \o <<COLON, SP>>)

\* C10: build_extracted_dict maps each key to the value extracted for its
\* section and label (the name for key name), and to the empty string
\* exactly when the extraction result has no such field.
C10_ProjectionRoundTrip ==
  Past({"split", "find", "extract", "format", "build"}) =>
    LET d == extracted_dict
        an == <<"Anschlussnehmer">>
        pairs ==
          { <<d.anschrift, an, <<"Anschrift">> >>,
            <<d.telefon, an, <<"Erreichbarkeit Telefon">> >>,
            <<d.anschlussort_strasse, <<"Anschlussort">>, <<"Straße">> >>,
            <<d.messkonzept, <<"Angaben zur Kundenanlage">>,
              <<"Mess- und Betriebskonzept">> >>,
            <<d.pv_kwp, <<"Angaben zu den PV-Modulen">>,
              <<"Gesamtleistung aller PV-Module in kWp">> >>,
            <<d.speicher_kwh, <<"Angaben zur Speichereinheit">>,
              <<"Bruttokapazität des Speichereinheit">> >> }
    IN /\ d.name = IF name # <<>> THEN name[1] ELSE <<>>
       /\ d.name = <<>> <=> ~InResults(an, <<"Name">>)
       /\ \A t \in pairs :
            /\ t[1] = Extracted(t[3])
            /\ t[1] = <<>> <=> ~InResults(t[2], t[3])

C10_Witness ==
  /\ pc = "done"
  /\ extracted_dict.name = <<"Herr", SP, "Max">>
  /\ extracted_dict.anschrift = <<"a", COLON, SP, "b">>
  /\ Len(lines) = 4
  /\ At(lines, 3) = <<"Straße", COLON, SP, "x">>
  /\ extracted_dict.anschlussort_strasse = <<>>

====
